---- MODULE Spec2Model ----
(***************************************************************************)
(* Model of the four-stage alert pipeline of src/main.py:                  *)
(*   tick = ms_step -> mr_step -> mcs_step -> attack_step                  *)
(* over three Firestore collections (targets, active positions, user       *)
(* session counters).  Time is counted in seconds since a Monday 00:00:00  *)
(* in the configured timezone.                                             *)
(***************************************************************************)
EXTENDS Integers, Sequences, FiniteSets, TLC

\* ------------------------------------------------------------------------
\* Bounds of the exploration
\* ------------------------------------------------------------------------
\* ticks that may be started in one behaviour of serialized ticks
MaxTicks == 4

\* ticks that may be started in one behaviour of overlapping ticks
MaxOverlapTicks == 2

\* ticks that may be started in one behaviour with a raising store or
\* notifier
MaxFailTicks == 2

\* ticks that may be started in one behaviour with a dying process
MaxCrashTicks == 3

\* ticks that may be started in one behaviour with a replaced readiness
\* oracle
MaxOracleTicks == 2

\* workers that may run tick() (a retried trigger gives a second one)
Procs == {1, 2}

\* document ids of the targets collection, in Firestore's id order
TickerOrder == <<"QQQ", "SPY">>

Tickers == {TickerOrder[i] : i \in 1..Len(TickerOrder)}

\* scores the market scan may compute for a ticker
MarketScores == {65, 74, 78}

\* ------------------------------------------------------------------------
\* CONFIG (src/main.py:26-57)
\* ------------------------------------------------------------------------
\* "03:00", "19:00", "08:45", "15:00" as their digits
MS_START_HHMM == <<0, 3, 0, 0>>

MS_END_HHMM == <<1, 9, 0, 0>>

ATTACK_START_HHMM == <<0, 8, 4, 5>>

ATTACK_END_HHMM == <<1, 5, 0, 0>>

MAX_TRADES_PER_SESSION == 3

MIN_MS_SCORE == 70

MIN_MCS_SCORE == 75

\* timedelta(minutes=20) of attack_step, timedelta(minutes=15) of mr_monitor_target
ATTACK_TTL_MIN == 20

MR_TTL_MIN == 15

\* ------------------------------------------------------------------------
\* Time
\* ------------------------------------------------------------------------
DAY == 24 * 3600

At(day, hh, mm, ss) == day * DAY + hh * 3600 + mm * 60 + ss

\* wall-clock instants the clock may show (day 4 = Friday, 5 = Saturday,
\* 7 = the next Monday)
TimePoints ==
  { At(4, 9, 0, 0), At(4, 9, 20, 0), At(4, 9, 20, 1), At(4, 16, 0, 0),
    At(4, 19, 0, 1), At(5, 9, 0, 0), At(7, 9, 0, 0) }

FirstTime == At(4, 9, 0, 0)

Days == {t \div DAY : t \in TimePoints}

\* parse_hhmm: "HH:MM" -> (hh, mm)
parse_hhmm(hhmm) == <<hhmm[1] * 10 + hhmm[2], hhmm[3] * 10 + hhmm[4]>>

\* dt.replace(hour=h, minute=m, second=0, microsecond=0)
replace_hm(dt, hm) == (dt \div DAY) * DAY + hm[1] * 3600 + hm[2] * 60

\* start <= dt <= end on the day of dt
in_window_exclusive(dt, start_hhmm, end_hhmm) ==
  LET start == replace_hm(dt, parse_hhmm(start_hhmm))
      end   == replace_hm(dt, parse_hhmm(end_hhmm))
  IN  start <= dt /\ dt < end

in_window(dt, start_hhmm, end_hhmm) ==
  LET start == replace_hm(dt, parse_hhmm(start_hhmm))
      end   == replace_hm(dt, parse_hhmm(end_hhmm))
  IN  start <= dt /\ dt <= end

is_weekday(dt) == ((dt \div DAY) % 7) < 5

\* datetime.isoformat(): the instant as its date and time-of-day text
isoformat(dt) == [date |-> dt \div DAY, secs |-> dt % DAY]

\* datetime.fromisoformat()
fromisoformat(s) == s.date * DAY + s.secs

NoIso == [date |-> -1, secs |-> -1]

session_key_for_user(dt) == dt \div DAY

can_issue_attack_now(dt) ==
  is_weekday(dt) /\ in_window(dt, ATTACK_START_HHMM, ATTACK_END_HHMM)

MsWindowOpen(dt) ==
  is_weekday(dt) /\ in_window(dt, MS_START_HHMM, MS_END_HHMM)

\* ------------------------------------------------------------------------
\* STATE (Firestore): documents and set(merge=True)
\* ------------------------------------------------------------------------
\* a target document that does not exist; absent fields read as the
\* defaults of the code's t.get(...) calls
NoTarget ==
  [exists |-> FALSE, ms_score |-> -1, state |-> "", first_seen_at |-> -1,
   active |-> TRUE, mr_ready |-> FALSE, mr_score |-> -1, expires_at |-> NoIso,
   mcs_pass |-> FALSE, mcs_score |-> -1, regime |-> ""]

NoActive ==
  [exists |-> FALSE, status |-> "", issued_at |-> NoIso, expires_at |-> NoIso,
   regime |-> ""]

\* document.set(fields, merge=True): creates the document when missing,
\* overwrites exactly the fields given
merge(doc, fields) ==
  [k \in DOMAIN doc |->
     IF k = "exists" THEN TRUE
     ELSE IF k \in DOMAIN fields THEN fields[k] ELSE doc[k]]

VARIABLES
  now,        \* wall clock (now_ct(), firestore.SERVER_TIMESTAMP)
  targets,    \* COL_TARGETS: ticker -> document
  active,     \* COL_ACTIVE: ticker -> document
  sessions,   \* COL_USERS/broadcast .sessions: session key -> count
  pc,         \* per worker: position in tick()
  dt,         \* per worker: the timestamp captured by tick()
  res,        \* per worker: the stage results of the tick
  snap,       \* per worker: attack_step's list_targets() result
  idx,        \* per worker: attack_step's loop position in snap
  count,      \* per worker: attack_step's count read at entry
  issued,     \* per worker: attack_step's issued
  cur,        \* per worker: increment_user_trade's sessions read
  called,     \* per worker: tickers without a Target when the tick began,
              \* tickers each oracle ran for, tickers stood down
  sms,        \* per worker: send_sms calls of this tick, by ticker
  elig,       \* per worker: eligible targets when attack_step listed them
  writes,     \* per worker: set_active calls of this tick, by ticker
  issuedIn,   \* attacks issued per session key
  nticks,     \* ticks started
  win         \* one call of in_window: its arguments and its result

vars == <<now, targets, active, sessions, pc, dt, res, snap, idx, count,
          issued, cur, called, sms, elig, writes, issuedIn, nticks, win>>

NoRes == [ms |-> "none", mr |-> "none", mcs |-> "none", attack |-> "none"]

NoCalls == [fresh |-> {}, mr |-> {}, down |-> {}, mcs |-> {}]

NoCount == [tk \in Tickers |-> 0]

\* no call of in_window under observation: none has returned
NoCall ==
  [t |-> 0, start |-> <<0, 0, 0, 0>>, end |-> <<0, 0, 0, 0>>,
   done |-> FALSE, result |-> FALSE]

\* the state after construction, but for the observed in_window call
InitPipeline ==
  /\ now = FirstTime
  /\ targets = [tk \in Tickers |-> NoTarget]
  /\ active = [tk \in Tickers |-> NoActive]
  /\ sessions = [d \in Days |-> 0]
  /\ pc = [p \in Procs |-> "idle"]
  /\ dt = [p \in Procs |-> FirstTime]
  /\ res = [p \in Procs |-> NoRes]
  /\ snap = [p \in Procs |-> <<>>]
  /\ idx = [p \in Procs |-> 1]
  /\ count = [p \in Procs |-> 0]
  /\ issued = [p \in Procs |-> 0]
  /\ cur = [p \in Procs |-> [d \in Days |-> 0]]
  /\ called = [p \in Procs |-> NoCalls]
  /\ sms = [p \in Procs |-> NoCount]
  /\ elig = [p \in Procs |-> 0]
  /\ writes = [p \in Procs |-> NoCount]
  /\ issuedIn = [d \in Days |-> 0]
  /\ nticks = 0

Init == InitPipeline /\ win = NoCall

\* ------------------------------------------------------------------------
\* Store adapter
\* ------------------------------------------------------------------------
upsert_target(tgts, ticker, fields) ==
  [tgts EXCEPT ![ticker] = merge(tgts[ticker], fields)]

\* list_targets(): the existing documents in id order, each with its _id
RECURSIVE ListFrom(_, _)
ListFrom(tgts, i) ==
  IF i > Len(TickerOrder) THEN <<>>
  ELSE LET tk == TickerOrder[i]
       IN  IF tgts[tk].exists
           THEN <<[id |-> tk, doc |-> tgts[tk]]>> \o ListFrom(tgts, i + 1)
           ELSE ListFrom(tgts, i + 1)

list_targets(tgts) == ListFrom(tgts, 1)

set_active(act, ticker, fields) ==
  [act EXCEPT ![ticker] = merge(act[ticker], fields)]

\* document.delete() on the ticker's Active Position
remove_active(a) == NoActive

get_user_trade_count(sess, session_key) == sess[session_key]

\* ------------------------------------------------------------------------
\* The clock
\* ------------------------------------------------------------------------
Advance ==
  /\ \E t \in TimePoints : t > now /\ now' = t
  /\ UNCHANGED <<targets, active, sessions, pc, dt, res, snap, idx, count,
                 issued, cur, called, sms, elig, writes, issuedIn, nticks, win>>

\* ------------------------------------------------------------------------
\* tick(): dt = now_ct()
\* ------------------------------------------------------------------------
TickStart(p, bound) ==
  /\ pc[p] = "idle"
  /\ nticks < bound
  /\ nticks' = nticks + 1
  /\ dt' = [dt EXCEPT ![p] = now]
  /\ pc' = [pc EXCEPT ![p] = "ms"]
  /\ res' = [res EXCEPT ![p] = NoRes]
  /\ snap' = [snap EXCEPT ![p] = <<>>]
  /\ idx' = [idx EXCEPT ![p] = 1]
  /\ count' = [count EXCEPT ![p] = 0]
  /\ issued' = [issued EXCEPT ![p] = 0]
  /\ cur' = [cur EXCEPT ![p] = [d \in Days |-> 0]]
  /\ called' = [called EXCEPT ![p] =
                  [NoCalls EXCEPT !.fresh =
                     {tk \in Tickers : ~targets[tk].exists}]]
  /\ sms' = [sms EXCEPT ![p] = NoCount]
  /\ elig' = [elig EXCEPT ![p] = 0]
  /\ writes' = [writes EXCEPT ![p] = NoCount]
  /\ UNCHANGED <<now, targets, active, sessions, issuedIn, win>>

\* ------------------------------------------------------------------------
\* Discovery
\* ------------------------------------------------------------------------
\* ms_scan_market(): the scanned tickers whose score reaches MIN_MS_SCORE
ms_scan_market(market) == {tk \in Tickers : market[tk] >= MIN_MS_SCORE}

\* the document ms_step writes for a candidate
MsDoc(score, ts) ==
  [ms_score |-> score, state |-> "DISCOVERED", first_seen_at |-> ts,
   active |-> TRUE]

MsUpserts(tgts, market, ts) ==
  [tk \in Tickers |->
     IF tk \in ms_scan_market(market)
     THEN merge(tgts[tk], MsDoc(market[tk], ts))
     ELSE tgts[tk]]

MsStep(p) ==
  /\ pc[p] = "ms"
  /\ pc' = [pc EXCEPT ![p] = "mr"]
  /\ IF ~MsWindowOpen(dt[p])
     THEN /\ res' = [res EXCEPT ![p].ms = "notrun"]
          /\ UNCHANGED targets
     ELSE /\ res' = [res EXCEPT ![p].ms = "ran"]
          /\ \E market \in [Tickers -> MarketScores] :
               targets' = MsUpserts(targets, market, now)
  /\ UNCHANGED <<now, active, sessions, dt, snap, idx, count, issued, cur,
                 called, sms, elig, writes, issuedIn, nticks, win>>

\* ------------------------------------------------------------------------
\* Readiness
\* ------------------------------------------------------------------------
\* mr_monitor_target(t): reads the wall clock for the target's expires_at
mr_monitor_target(t, wall) ==
  [mr_ready |-> t.ms_score >= MIN_MS_SCORE + 0,
   mr_score |-> t.ms_score,
   expires_at |-> isoformat(wall + MR_TTL_MIN * 60)]

\* the loop's filter: not t.get("active", True) -> continue
Visited(t) == t.exists /\ t.active

\* active_state and active_state.get("status") in ("ATTACK_ISSUED", "ACTIVE")
LivePosition(a) == a.exists /\ a.status \in {"ATTACK_ISSUED", "ACTIVE"}

\* expires present and dt > fromisoformat(expires)
ExpiredAtBoundary(a, d) ==
  /\ a.expires_at # NoIso
  /\ d >= fromisoformat(a.expires_at)

Expired(a, d) ==
  /\ a.expires_at # NoIso
  /\ d > fromisoformat(a.expires_at)

\* the stand-down write of mr_step
StandDownKeepsActive == [state |-> "REMOVED", active |-> TRUE]

StandDownDoc == [state |-> "REMOVED", active |-> FALSE]

\* one iteration of mr_step's loop, mr being the oracle's answer
MrTargetWith(t, a, d, mr) ==
  IF ~Visited(t) THEN t
  ELSE IF LivePosition(a)
       THEN IF Expired(a, d)
            THEN merge(t, StandDownDoc)
            ELSE t
       ELSE merge(t, [state |-> "MONITORING"] @@ mr)

\* one iteration of mr_step's loop, with the placeholder oracle
MrTargetGated(t, a, d, wall) ==
  IF ~MsWindowOpen(d) THEN t
  ELSE MrTargetWith(t, a, d, mr_monitor_target(t, wall))

MrTarget(t, a, d, wall) == MrTargetWith(t, a, d, mr_monitor_target(t, wall))

MrActive(t, a, d) ==
  IF Visited(t) /\ LivePosition(a) /\ Expired(a, d)
  THEN remove_active(a)
  ELSE a

MrStep(p) ==
  /\ pc[p] = "mr"
  /\ pc' = [pc EXCEPT ![p] = "mcs"]
  /\ res' = [res EXCEPT ![p].mr = "ran"]
  /\ targets' = [tk \in Tickers |->
                   MrTarget(targets[tk], active[tk], dt[p], now)]
  /\ active' = [tk \in Tickers |-> MrActive(targets[tk], active[tk], dt[p])]
  /\ called' = [called EXCEPT
                  ![p].mr = {tk \in Tickers :
                              Visited(targets[tk]) /\ ~LivePosition(active[tk])},
                  \* log_event("mr_secondary_remove", {"ticker": ticker})
                  ![p].down = {tk \in Tickers :
                                /\ Visited(targets[tk])
                                /\ LivePosition(active[tk])
                                /\ Expired(active[tk], dt[p])}]
  /\ UNCHANGED <<now, sessions, dt, snap, idx, count, issued, cur, sms, elig,
                 writes, issuedIn, nticks, win>>

\* ------------------------------------------------------------------------
\* Validation
\* ------------------------------------------------------------------------
\* mcs_validate(t): dt = now_ct() inside the oracle
mcs_validate(t, wall) ==
  LET regime == IF MsWindowOpen(wall) THEN "HUNT" ELSE "NO_HUNT"
  IN  [mcs_pass |-> (regime = "HUNT") /\ (t.mr_score >= MIN_MCS_SCORE),
       mcs_score |-> t.mr_score,
       regime |-> regime]

\* one iteration of mcs_step's loop
McsTargetAll(t, wall) ==
  IF Visited(t)
  THEN LET v == mcs_validate(t, wall)
       IN  merge(t, [state |-> IF v.mcs_pass THEN "VALIDATED" ELSE "REJECTED"]
                    @@ v)
  ELSE t

McsTarget(t, wall) ==
  IF Visited(t) /\ t.mr_ready
  THEN LET v == mcs_validate(t, wall)
       IN  merge(t, [state |-> IF v.mcs_pass THEN "VALIDATED" ELSE "REJECTED"]
                    @@ v)
  ELSE t

McsStep(p) ==
  /\ pc[p] = "mcs"
  /\ pc' = [pc EXCEPT ![p] = "attack"]
  /\ res' = [res EXCEPT ![p].mcs = "ran"]
  /\ targets' = [tk \in Tickers |-> McsTarget(targets[tk], now)]
  /\ called' = [called EXCEPT ![p].mcs =
                  {tk \in Tickers :
                     Visited(targets[tk]) /\ targets[tk].mr_ready}]
  /\ UNCHANGED <<now, active, sessions, dt, snap, idx, count, issued, cur,
                 sms, elig, writes, issuedIn, nticks, win>>

\* ------------------------------------------------------------------------
\* Attack: one action per store operation of attack_step
\* ------------------------------------------------------------------------
\* count >= MAX_TRADES_PER_SESSION at entry
LimitReachedOffByOne(c) == c > MAX_TRADES_PER_SESSION

LimitReached(c) == c >= MAX_TRADES_PER_SESSION

\* issued >= (MAX_TRADES_PER_SESSION - count): break
BudgetSpentOffByOne(k, c) == k > (MAX_TRADES_PER_SESSION - c)

BudgetSpent(k, c) == k >= (MAX_TRADES_PER_SESSION - c)

\* the target filters of the loop
Eligible(t) == t.active /\ t.mcs_pass

\* get_active(ticker) truthy: already active, skip
AlreadyActiveIgnored(a) == FALSE

AlreadyActive(a) == a.exists

\* window check, then count = get_user_trade_count(user_id, sess)
AttackEntry(p) ==
  /\ pc[p] = "attack"
  /\ IF ~can_issue_attack_now(dt[p])
     THEN /\ res' = [res EXCEPT ![p].attack = "notrun"]
          /\ pc' = [pc EXCEPT ![p] = "idle"]
          /\ UNCHANGED count
     ELSE LET c == get_user_trade_count(sessions, session_key_for_user(dt[p]))
          IN  /\ count' = [count EXCEPT ![p] = c]
              /\ IF LimitReached(c)
                 THEN /\ res' = [res EXCEPT ![p].attack = "notrun"]
                      /\ pc' = [pc EXCEPT ![p] = "idle"]
                 ELSE /\ res' = res
                      /\ pc' = [pc EXCEPT ![p] = "a_list"]
  /\ UNCHANGED <<now, targets, active, sessions, dt, snap, idx, issued, cur,
                 called, sms, elig, writes, issuedIn, nticks, win>>

\* targets = list_targets(); issued = 0
AttackList(p) ==
  /\ pc[p] = "a_list"
  /\ pc' = [pc EXCEPT ![p] = "a_loop"]
  /\ snap' = [snap EXCEPT ![p] = list_targets(targets)]
  /\ idx' = [idx EXCEPT ![p] = 1]
  /\ issued' = [issued EXCEPT ![p] = 0]
  /\ elig' = [elig EXCEPT ![p] =
                Cardinality({tk \in Tickers :
                               /\ targets[tk].exists
                               /\ Eligible(targets[tk])
                               /\ ~AlreadyActive(active[tk])})]
  /\ UNCHANGED <<now, targets, active, sessions, dt, res, count, cur,
                 called, sms, writes, issuedIn, nticks, win>>

\* the Active Position document attack_step writes
ActiveDocActive(t, d) ==
  [status |-> "ACTIVE",
   issued_at |-> isoformat(d),
   expires_at |-> isoformat(d + ATTACK_TTL_MIN * 60),
   regime |-> IF t.regime = "" THEN "HUNT" ELSE t.regime]

ActiveDoc(t, d) ==
  [status |-> "ATTACK_ISSUED",
   issued_at |-> isoformat(d),
   expires_at |-> isoformat(d + ATTACK_TTL_MIN * 60),
   regime |-> IF t.regime = "" THEN "HUNT" ELSE t.regime]

\* loop head: break on the budget, the filters, get_active(ticker)
AttackLoop(p) ==
  /\ pc[p] = "a_loop"
  /\ IF idx[p] > Len(snap[p]) \/ BudgetSpent(issued[p], count[p])
     THEN \* return {"ran": True, "issued": issued}; the frame is dropped
          /\ res' = [res EXCEPT ![p].attack = "ran"]
          /\ pc' = [pc EXCEPT ![p] = "idle"]
          /\ idx' = [idx EXCEPT ![p] = 1]
          /\ snap' = [snap EXCEPT ![p] = <<>>]
          /\ cur' = [cur EXCEPT ![p] = [d \in Days |-> 0]]
     ELSE LET t  == snap[p][idx[p]].doc
              tk == snap[p][idx[p]].id
          IN  /\ res' = res
              /\ UNCHANGED <<snap, cur>>
              /\ IF ~Eligible(t) \/ AlreadyActive(active[tk])
                 THEN /\ idx' = [idx EXCEPT ![p] = idx[p] + 1]
                      /\ pc' = pc
                 ELSE /\ idx' = idx
                      /\ pc' = [pc EXCEPT ![p] = "a_set"]
  /\ UNCHANGED <<now, targets, active, sessions, dt, count, issued,
                 called, sms, elig, writes, issuedIn, nticks, win>>

\* set_active(ticker, {...})
AttackSetActive(p) ==
  /\ pc[p] = "a_set"
  /\ pc' = [pc EXCEPT ![p] = "a_upsert"]
  /\ LET t  == snap[p][idx[p]].doc
         tk == snap[p][idx[p]].id
         k  == session_key_for_user(dt[p])
     IN  /\ active' = set_active(active, tk, ActiveDoc(t, dt[p]))
         /\ writes' = [writes EXCEPT ![p][tk] = @ + 1]
         /\ issuedIn' = [issuedIn EXCEPT ![k] = @ + 1]
  /\ UNCHANGED <<now, targets, sessions, dt, res, snap, idx, count, issued,
                 cur, called, sms, elig, nticks, win>>

\* upsert_target(ticker, {"state": "ATTACK_ISSUED", ...})
AttackUpsert(p) ==
  /\ pc[p] = "a_upsert"
  /\ pc' = [pc EXCEPT ![p] = "a_inc_get"]
  /\ targets' = upsert_target(targets, snap[p][idx[p]].id,
                              [state |-> "ATTACK_ISSUED"])
  /\ UNCHANGED <<now, active, sessions, dt, res, snap, idx, count, issued,
                 cur, called, sms, elig, writes, issuedIn, nticks, win>>

\* increment_user_trade: snap = ref.get(); sessions = data.get("sessions", {})
IncrementGet(p) ==
  /\ pc[p] = "a_inc_get"
  /\ pc' = [pc EXCEPT ![p] = "a_inc_set"]
  /\ cur' = [cur EXCEPT ![p] = sessions]
  /\ UNCHANGED <<now, targets, active, sessions, dt, res, snap, idx, count,
                 issued, called, sms, elig, writes, issuedIn, nticks, win>>

\* sessions[session_key] = cur + 1 on the copy read by ref.get()
Incremented(read, session_key) ==
  [read EXCEPT ![session_key] = @ + 1]

\* ref.set({"sessions": sessions}, merge=True): every key of the copy is
\* written, a key the copy lacks (count 0) is left as stored
SessionsSet(stored, copy) ==
  [d \in DOMAIN stored |-> IF copy[d] > 0 THEN copy[d] ELSE stored[d]]

IncrementSet(p) ==
  /\ pc[p] = "a_inc_set"
  /\ pc' = [pc EXCEPT ![p] = "a_sms"]
  /\ sessions' = SessionsSet(sessions,
                     Incremented(cur[p], session_key_for_user(dt[p])))
  /\ UNCHANGED <<now, targets, active, dt, res, snap, idx, count, issued,
                 cur, called, sms, elig, writes, issuedIn, nticks, win>>

\* send_sms(sms); log_event; issued += 1
AttackSms(p) ==
  /\ pc[p] = "a_sms"
  /\ pc' = [pc EXCEPT ![p] = "a_loop"]
  /\ sms' = [sms EXCEPT ![p][snap[p][idx[p]].id] = @ + 1]
  /\ issued' = [issued EXCEPT ![p] = issued[p] + 1]
  /\ idx' = [idx EXCEPT ![p] = idx[p] + 1]
  /\ UNCHANGED <<now, targets, active, sessions, dt, res, snap, count, cur,
                 called, elig, writes, issuedIn, nticks, win>>

Step(p, bound) ==
  \/ TickStart(p, bound)
  \/ MsStep(p)
  \/ MrStep(p)
  \/ McsStep(p)
  \/ AttackEntry(p)
  \/ AttackList(p)
  \/ AttackLoop(p)
  \/ AttackSetActive(p)
  \/ AttackUpsert(p)
  \/ IncrementGet(p)
  \/ IncrementSet(p)
  \/ AttackSms(p)

\* serialized ticks: one worker, each tick runs to its end before the next
Next == Advance \/ Step(1, MaxTicks)

Spec == Init /\ [][Next]_vars

\* overlapping ticks: a retried trigger starts a second tick while the first
\* is running; their store operations interleave in any order
NextOverlap == \E p \in Procs : Step(p, MaxOverlapTicks)

SpecOverlap == Init /\ [][NextOverlap]_vars

\* ------------------------------------------------------------------------
\* in_window as a function of its arguments
\* ------------------------------------------------------------------------
\* days of the timestamps in_window is applied to: Monday, Saturday, Sunday
WinDays == {0, 5, 6}

\* hour and minute of the timestamps: each configured boundary with the
\* minute before and after it, and the ends of the day
WinMinutes ==
  { <<2, 59>>, <<3, 0>>, <<3, 1>>, <<8, 44>>, <<8, 45>>, <<8, 46>>,
    <<14, 59>>, <<15, 0>>, <<15, 1>>, <<18, 59>>, <<19, 0>>, <<19, 1>>,
    <<0, 0>>, <<23, 59>> }

WinSeconds == {0, 1, 59}

WinTimes ==
  {At(d, hm[1], hm[2], ss) : d \in WinDays, hm \in WinMinutes,
                            ss \in WinSeconds}

\* values of the *_HHMM settings: the defaults and the ends of the day
WinHHMM ==
  { MS_START_HHMM, MS_END_HHMM, ATTACK_START_HHMM, ATTACK_END_HHMM,
    <<0, 0, 0, 0>>, <<2, 3, 5, 9>> }

InitWindow ==
  /\ InitPipeline
  /\ win \in [t : WinTimes, start : WinHHMM, end : WinHHMM,
              done : {FALSE}, result : {FALSE}]

\* the call in_window(t, start, end) returns
ApplyInWindow ==
  /\ ~win.done
  /\ win' = [win EXCEPT !.result = in_window(win.t, win.start, win.end),
                        !.done = TRUE]
  /\ UNCHANGED <<now, targets, active, sessions, pc, dt, res, snap, idx,
                 count, issued, cur, called, sms, elig, writes, issuedIn,
                 nticks>>

SpecWindow == InitWindow /\ [][ApplyInWindow]_vars

\* ------------------------------------------------------------------------
\* Readiness with a replaced oracle
\* ------------------------------------------------------------------------
\* mr_monitor_target is a strategy plugin to be replaced; its contract is to
\* return {"mr_ready": bool, "mr_score", "mr_note", "expires_at"}. Here the
\* readiness it returns for each ticker is an input of the step.
MrStepOracle(p) ==
  /\ pc[p] = "mr"
  /\ pc' = [pc EXCEPT ![p] = "mcs"]
  /\ res' = [res EXCEPT ![p].mr = "ran"]
  /\ \E ready \in [Tickers -> BOOLEAN] :
       targets' = [tk \in Tickers |->
                     MrTargetWith(targets[tk], active[tk], dt[p],
                                  [mr_monitor_target(targets[tk], now)
                                     EXCEPT !.mr_ready = ready[tk]])]
  /\ active' = [tk \in Tickers |-> MrActive(targets[tk], active[tk], dt[p])]
  /\ called' = [called EXCEPT
                  ![p].mr = {tk \in Tickers :
                              Visited(targets[tk]) /\ ~LivePosition(active[tk])},
                  ![p].down = {tk \in Tickers :
                                /\ Visited(targets[tk])
                                /\ LivePosition(active[tk])
                                /\ Expired(active[tk], dt[p])}]
  /\ UNCHANGED <<now, sessions, dt, snap, idx, count, issued, cur, sms, elig,
                 writes, issuedIn, nticks, win>>

NextOracle == Advance \/ Step(1, MaxOracleTicks) \/ MrStepOracle(1)

SpecOracle == Init /\ [][NextOracle]_vars

\* ------------------------------------------------------------------------
\* Failures
\* ------------------------------------------------------------------------
\* the stage a position of tick() belongs to, for the stages that begin
\* with list_targets()
ListingStage(at) ==
  CASE at = "mr" -> "mr"
    [] at = "mcs" -> "mcs"
    [] at = "a_list" -> "attack"

\* list_targets() raises (store unavailable): neither the stage nor tick()
\* has a try/except, the exception leaves tick() and the request fails
ListRaises(p) ==
  /\ pc[p] \in {"mr", "mcs", "a_list"}
  /\ res' = [res EXCEPT ![p][ListingStage(pc[p])] = "raised"]
  /\ pc' = [pc EXCEPT ![p] = "idle"]
  /\ UNCHANGED <<now, targets, active, sessions, dt, snap, idx, count,
                 issued, cur, called, sms, elig, writes, issuedIn, nticks,
                 win>>

NextStoreFail == Advance \/ Step(1, MaxFailTicks) \/ ListRaises(1)

SpecStoreFail == Init /\ [][NextStoreFail]_vars

\* send_sms: client.messages.create(...) raises; send_sms and attack_step
\* do not catch it, the exception leaves attack_step and tick()
SmsRaises(p) ==
  /\ pc[p] = "a_sms"
  /\ sms' = [sms EXCEPT ![p][snap[p][idx[p]].id] = @ + 1]
  /\ res' = [res EXCEPT ![p].attack = "raised"]
  /\ pc' = [pc EXCEPT ![p] = "idle"]
  /\ idx' = [idx EXCEPT ![p] = 1]
  /\ snap' = [snap EXCEPT ![p] = <<>>]
  /\ cur' = [cur EXCEPT ![p] = [d \in Days |-> 0]]
  /\ UNCHANGED <<now, targets, active, sessions, dt, count, issued, called,
                 elig, writes, issuedIn, nticks, win>>

NextNotifierFail == Advance \/ Step(1, MaxFailTicks) \/ SmsRaises(1)

SpecNotifierFail == Init /\ [][NextNotifierFail]_vars

\* the process dies after set_active and before the counter is written
Crash(p) ==
  /\ pc[p] \in {"a_upsert", "a_inc_get", "a_inc_set"}
  /\ res' = [res EXCEPT ![p].attack = "crashed"]
  /\ pc' = [pc EXCEPT ![p] = "idle"]
  /\ idx' = [idx EXCEPT ![p] = 1]
  /\ snap' = [snap EXCEPT ![p] = <<>>]
  /\ cur' = [cur EXCEPT ![p] = [d \in Days |-> 0]]
  /\ UNCHANGED <<now, targets, active, sessions, dt, count, issued, called,
                 sms, elig, writes, issuedIn, nticks, win>>

NextCrash == Advance \/ Step(1, MaxCrashTicks) \/ Crash(1)

SpecCrash == Init /\ [][NextCrash]_vars

\* ------------------------------------------------------------------------
\* Properties
\* ------------------------------------------------------------------------
RECURSIVE SumOver(_, _)
SumOver(f, S) ==
  IF S = {} THEN 0
  ELSE LET x == CHOOSE y \in S : TRUE IN f[x] + SumOver(f, S \ {x})

Min(a, b) == IF a <= b THEN a ELSE b

\* attacks issued by worker p in its current tick
Attacks(p) == SumOver(writes[p], Tickers)

\* C1: a serialized run of attack_step that started with count c below the
\* limit has issued k attacks with k <= min(eligible targets, limit - c),
\* returns k, and leaves the session counter at exactly c + k; no session
\* counter ever exceeds the limit.
C1_AttackBudget ==
  /\ \A p \in Procs :
       res[p].attack = "ran" =>
         /\ count[p] < 3
         /\ Attacks(p) <= Min(elig[p], 3 - count[p])
         /\ issued[p] = Attacks(p)
         /\ sessions[dt[p] \div DAY] = count[p] + Attacks(p)
  /\ \A d \in Days : sessions[d] <= 3

\* two eligible tickers, budget 1: one attack issued, the counter at the limit
C1_Witness ==
  /\ res[1].attack = "ran"
  /\ count[1] = 2
  /\ elig[1] = 2
  /\ Attacks(1) = 1
  /\ sessions[dt[1] \div DAY] = 3

\* C2: with two overlapping attack_step runs on the same session, the
\* attacks issued in a session never exceed the limit.
C2_OverlapLimit == \A d \in Days : issuedIn[d] <= 3

\* time of day in seconds, day of the week (0 = Monday)
TimeOfDay(t) == t % DAY

Weekend(t) == (t \div DAY) % 7 \in {5, 6}

MonitoringClosed(t) ==
  Weekend(t) \/ TimeOfDay(t) < 3 * 3600 \/ TimeOfDay(t) > 19 * 3600

AttackClosed(t) ==
  Weekend(t) \/ TimeOfDay(t) < 8 * 3600 + 45 * 60 \/ TimeOfDay(t) > 15 * 3600

\* C3: ms_step on a weekend or outside the monitoring window returns
\* "not run" and writes no Target; attack_step on a weekend, outside the
\* attack window or with the session count at the limit returns "not run"
\* and leaves positions, targets, the counter and the notifier untouched.
C3_NotRunNoEffect ==
  [][\A p \in Procs :
       /\ (pc[p] = "ms" /\ pc'[p] # "ms" /\ MonitoringClosed(dt[p])) =>
            /\ res'[p].ms = "notrun"
            /\ UNCHANGED <<targets, active, sessions, sms, writes>>
       /\ (/\ pc[p] = "attack" /\ pc'[p] # "attack"
           /\ (AttackClosed(dt[p]) \/ sessions[dt[p] \div DAY] >= 3)) =>
            /\ res'[p].attack = "notrun"
            /\ pc'[p] = "idle"
            /\ UNCHANGED <<targets, active, sessions, sms, writes>>
       /\ (res'[p].attack = "notrun" /\ res[p].attack # "notrun") =>
            UNCHANGED <<targets, active, sessions, sms, writes>>
       /\ (res'[p].ms = "notrun" /\ res[p].ms # "notrun") =>
            UNCHANGED <<targets, active, sessions, sms, writes>>]_vars

\* attack_step refused at the limit inside the attack window
C3_Witness ==
  /\ pc[1] = "idle"
  /\ res[1].attack = "notrun"
  /\ ~AttackClosed(dt[1])
  /\ sessions[dt[1] \div DAY] = 3
  /\ \E tk \in Tickers : targets[tk].mcs_pass /\ ~active[tk].exists

\* the instant a stored expires_at text denotes
ExpiryOf(a) == a.expires_at.date * DAY + a.expires_at.secs

\* C4: between ticks a ticker has an Active Position iff its Target is in
\* state ATTACK_ISSUED and the position had not expired at the captured
\* time of the last tick.
C4_PositionIffIssued ==
  pc[1] = "idle" =>
    \A tk \in Tickers :
      active[tk].exists <=>
        /\ targets[tk].state = "ATTACK_ISSUED"
        /\ active[tk].exists => dt[1] <= ExpiryOf(active[tk])

\* position of a state along
\* DISCOVERED -> MONITORING -> VALIDATED | REJECTED -> ATTACK_ISSUED -> REMOVED
Rank(st) ==
  CASE st = "" -> 0
    [] st = "DISCOVERED" -> 1
    [] st = "MONITORING" -> 2
    [] st \in {"VALIDATED", "REJECTED"} -> 3
    [] st = "ATTACK_ISSUED" -> 4
    [] st = "REMOVED" -> 5

\* C5: every change of a Target's state moves forward along the chain,
\* except a discovery write resetting a REMOVED or REJECTED target to
\* DISCOVERED.
C5_StateForward ==
  [][\A tk \in Tickers :
       targets'[tk].state # targets[tk].state =>
         \/ Rank(targets'[tk].state) > Rank(targets[tk].state)
         \/ /\ targets[tk].state \in {"REMOVED", "REJECTED"}
            /\ targets'[tk].state = "DISCOVERED"]_vars

\* C6: once a Target has a first_seen_at, no later write changes it.
C6_FirstSeenKept ==
  [][\A tk \in Tickers :
       targets[tk].exists =>
         targets'[tk].first_seen_at = targets[tk].first_seen_at]_vars

\* C7: an mr_step run whose tick time is later than a position's expires_at
\* deletes the position and sets its Target to REMOVED, active=false; an
\* mr_step run over a Target already REMOVED and inactive calls no oracle
\* and writes or deletes nothing for that ticker.
C7_StandDown ==
  [][\A p \in Procs : \A tk \in Tickers :
       (pc[p] = "mr" /\ pc'[p] # "mr") =>
         /\ (active[tk].exists /\ dt[p] > ExpiryOf(active[tk])) =>
              /\ ~active'[tk].exists
              /\ targets'[tk].state = "REMOVED"
              /\ ~targets'[tk].active
         /\ (targets[tk].state = "REMOVED" /\ ~targets[tk].active) =>
              /\ targets'[tk] = targets[tk]
              /\ active'[tk] = active[tk]
              /\ tk \notin called'[p].mr
              /\ tk \notin called'[p].down]_vars

\* an mr_step run over a ticker stood down by an earlier tick
C7_Witness ==
  /\ pc[1] = "mcs"
  /\ \E tk \in Tickers :
       /\ targets[tk].state = "REMOVED"
       /\ ~targets[tk].active
       /\ ~active[tk].exists
       /\ tk \notin called[1].down

\* C8: for a ticker whose position has status ATTACK_ISSUED or ACTIVE and
\* an expires_at not earlier than the tick time, mr_step calls no oracle,
\* leaves the Target as it is and leaves the position in place.
C8_LiveNotMonitored ==
  [][\A p \in Procs : \A tk \in Tickers :
       (/\ pc[p] = "mr" /\ pc'[p] # "mr"
        /\ active[tk].exists
        /\ active[tk].status \in {"ATTACK_ISSUED", "ACTIVE"}
        /\ ExpiryOf(active[tk]) >= dt[p]) =>
         /\ tk \notin called'[p].mr
         /\ targets'[tk] = targets[tk]
         /\ active'[tk] = active[tk]]_vars

\* mr_step has run at exactly the expiry instant of a live position
C8_Witness ==
  /\ pc[1] = "mcs"
  /\ \E tk \in Tickers :
       /\ active[tk].exists
       /\ targets[tk].active
       /\ ExpiryOf(active[tk]) = dt[1]

\* C9: in serialized ticks attack_step writes a position, increments the
\* counter and notifies only for a ticker without an Active Position: a
\* position is written once between its creation and its stand-down.
C9_NoDuplicateAttack ==
  [][\A p \in Procs : \A tk \in Tickers :
       /\ writes'[p][tk] > writes[p][tk] =>
            ~active[tk].exists /\ active'[tk].exists
       /\ (active'[tk] # active[tk] /\ active'[tk].exists) =>
            ~active[tk].exists
       /\ sms'[p][tk] > sms[p][tk] => writes[p][tk] = 1 /\ sms[p][tk] = 0
       /\ sessions' # sessions =>
            \E q \in Procs :
              /\ pc[q] = "a_inc_set"
              /\ Attacks(q) = issued[q] + 1
              /\ sessions' = [sessions EXCEPT ![dt[q] \div DAY] = @ + 1]]_vars

\* attack_step has run past an eligible ticker that has a live position
C9_Witness ==
  /\ pc[1] = "idle"
  /\ res[1].attack = "ran"
  /\ \E tk \in Tickers :
       /\ active[tk].exists
       /\ targets[tk].active /\ targets[tk].mcs_pass
       /\ targets[tk].state = "VALIDATED"
       /\ writes[1][tk] = 0

\* C10: every time-dependent decision of a tick uses the captured
\* timestamp: the regime written by validation is the one of the captured
\* time, and the stamps of an issued position derive from it.
C10_SingleTimestamp ==
  \A p \in Procs : \A tk \in Tickers :
    /\ (res[p].mcs = "ran" /\ tk \in called[p].mcs) =>
         targets[tk].regime =
           IF MonitoringClosed(dt[p]) THEN "NO_HUNT" ELSE "HUNT"
    /\ (writes[p][tk] > 0 /\ active[tk].exists) =>
         /\ active[tk].issued_at = [date |-> dt[p] \div DAY, secs |-> dt[p] % DAY]
         /\ ExpiryOf(active[tk]) = dt[p] + 20 * 60

\* C11: when a stage of a tick fails as a whole, the tick still attempts
\* every later stage: a finished tick with a failed stage carries a result
\* for each stage after it.
C11_StageFailureIsolated ==
  \A p \in Procs :
    pc[p] = "idle" =>
      /\ res[p].mr = "raised" =>
           res[p].mcs # "none" /\ res[p].attack # "none"
      /\ res[p].mcs = "raised" => res[p].attack # "none"
      /\ res[p].attack = "raised" =>
           res[p].ms # "none" /\ res[p].mr # "none" /\ res[p].mcs # "none"

\* C12: the send step of an issuance, failing or not, leaves the issued
\* attack committed and hands control back to attack_step's loop, which
\* counts the attack and goes on to the remaining tickers.
C12_NotifierFailureLocal ==
  [][\A p \in Procs :
       (pc[p] = "a_sms" /\ pc'[p] # "a_sms") =>
         /\ UNCHANGED <<targets, active, sessions>>
         /\ pc'[p] = "a_loop"
         /\ issued'[p] = issued[p] + 1
         /\ res'[p].attack # "raised"]_vars

\* C18: with crashes between the position write and the counter write the
\* counter may stay below the attacks issued, but the attacks issued in a
\* session never exceed the limit.
C18_CrashNoOverIssue ==
  \A d \in Days :
    /\ sessions[d] <= issuedIn[d]
    /\ issuedIn[d] <= 3

\* C13: mr_step runs at every tick time, weekends and closed windows
\* included: it removes each expired position of an active target and marks
\* that target REMOVED and inactive, and it sets every active target without
\* a position to MONITORING; neither mr_step nor mcs_step ever returns
\* "not run".
C13_ReadinessUngated ==
  [][\A p \in Procs :
       /\ res'[p].mr # "notrun"
       /\ res'[p].mcs # "notrun"
       /\ (pc[p] = "mr" /\ pc'[p] = "mcs") =>
            /\ res'[p].mr = "ran"
            /\ \A tk \in Tickers :
                 (targets[tk].exists /\ targets[tk].active) =>
                   IF active[tk].exists
                   THEN (dt[p] > ExpiryOf(active[tk])) =>
                          /\ ~active'[tk].exists
                          /\ targets'[tk].state = "REMOVED"
                          /\ ~targets'[tk].active
                   ELSE /\ targets'[tk].state = "MONITORING"
                        /\ tk \in called'[p].mr]_vars

\* a weekend tick, both windows closed, whose mr_step stood one ticker down
\* and moved another one to MONITORING
C13_Witness ==
  /\ pc[1] = "mcs"
  /\ Weekend(dt[1])
  /\ res[1].ms = "notrun"
  /\ \E tk \in called[1].down :
       targets[tk].state = "REMOVED" /\ ~active[tk].exists
  /\ \E tk \in called[1].mr : targets[tk].state = "MONITORING"

\* the tickers that had no Target when the tick of p began and that its
\* discovery returned, its readiness marked ready and its validation passed
PassedAllStages(p) ==
  {tk \in called[p].fresh \cap called[p].mr \cap called[p].mcs :
     targets[tk].mcs_pass}

\* C14: a finished tick captured on a weekday inside both windows that read
\* session count 0 has, for every ticker that did not exist as a Target
\* before the tick and passed discovery, readiness and validation in it,
\* Target state ATTACK_ISSUED, an Active Position with status ATTACK_ISSUED
\* issued at the tick's time, one position write and one notification; the
\* session counter and the notifications sent equal the attacks of the
\* tick, 1 when that ticker was the only eligible one.
C14_FourStagesOneTick ==
  \A p \in Procs :
    ( /\ pc[p] = "idle"
      /\ res[p].mcs = "ran"
      /\ ~Weekend(dt[p])
      /\ TimeOfDay(dt[p]) >= 8 * 3600 + 45 * 60
      /\ TimeOfDay(dt[p]) <= 15 * 3600
      /\ count[p] = 0
      /\ PassedAllStages(p) # {} ) =>
        /\ res[p].ms = "ran" /\ res[p].mr = "ran" /\ res[p].attack = "ran"
        /\ \A tk \in PassedAllStages(p) :
             /\ targets[tk].state = "ATTACK_ISSUED"
             /\ active[tk].exists
             /\ active[tk].status = "ATTACK_ISSUED"
             /\ active[tk].issued_at.date * DAY + active[tk].issued_at.secs
                  = dt[p]
             /\ writes[p][tk] = 1
             /\ sms[p][tk] = 1
        /\ sessions[dt[p] \div DAY] = Attacks(p)
        /\ SumOver(sms[p], Tickers) = Attacks(p)
        /\ Attacks(p) >= Cardinality(PassedAllStages(p))
        /\ elig[p] = 1 =>
             sessions[dt[p] \div DAY] = 1 /\ SumOver(sms[p], Tickers) = 1

\* the first tick of a session took one new ticker through all four stages:
\* counter 1 and one notification
C14_Witness ==
  /\ pc[1] = "idle"
  /\ res[1].attack = "ran"
  /\ count[1] = 0
  /\ \E tk \in Tickers :
       /\ PassedAllStages(1) = {tk}
       /\ elig[1] = 1
       /\ targets[tk].state = "ATTACK_ISSUED"
       /\ active[tk].status = "ATTACK_ISSUED"
       /\ sms[1][tk] = 1
  /\ sessions[dt[1] \div DAY] = 1
  /\ SumOver(sms[1], Tickers) = 1

\* C15: the stored count of a session key never decreases, whatever the
\* interleaving of increment_user_trade calls of overlapping ticks, and the
\* count of a day without an attack so far reads 0.
C15_CountMonotonic ==
  [][\A d \in Days :
       /\ sessions'[d] >= sessions[d]
       /\ issuedIn'[d] = 0 =>
            get_user_trade_count(sessions', d) = 0]_vars

SecondsOf(hhmm) ==
  (hhmm[1] * 10 + hhmm[2]) * 3600 + (hhmm[3] * 10 + hhmm[4]) * 60

\* C17: in_window(t, start, end) is true iff start <= time of day of t
\* <= end, on every day of the week: true at exactly start and at exactly
\* end of a non-empty window, false one minute before start and one minute
\* after end.
C17_InWindowInclusive ==
  win.done =>
    LET tod == TimeOfDay(win.t)
        s   == SecondsOf(win.start)
        e   == SecondsOf(win.end)
    IN  /\ win.result <=> (s <= tod /\ tod <= e)
        /\ (s <= e /\ tod \in {s, e}) => win.result
        /\ tod \in {s - 60, e + 60} => ~win.result

\* in_window has returned true on a weekend for the last instant of a
\* window
C17_Witness ==
  /\ win.done
  /\ win.result
  /\ SecondsOf(win.start) < SecondsOf(win.end)
  /\ Weekend(win.t)
  /\ TimeOfDay(win.t) = SecondsOf(win.end)

\* C19: whenever attack_step is about to write a position for a ticker, the
\* ticker's Target is in state VALIDATED with mr_ready true; a Target that
\* readiness has put back to MONITORING is not attacked on an mcs_pass
\* written by an earlier tick.
C19_AttackOnlyValidated ==
  \A p \in Procs :
    pc[p] = "a_set" =>
      LET tk == snap[p][idx[p]].id
      IN  /\ targets[tk].state = "VALIDATED"
          /\ targets[tk].mr_ready

\* notifications sent for a ticker by the ticks in progress or last run
NotifiedFor(tk) == SumOver([p \in Procs |-> sms[p][tk]], Procs)

\* position writes made for a ticker by the ticks in progress or last run
WrittenFor(tk) == SumOver([p \in Procs |-> writes[p][tk]], Procs)

\* C20: with overlapping ticks a ticker is attacked at most once per live
\* position: while its Active Position exists, the ticks have written that
\* position once and sent one notification for it, and no two workers are
\* issuing the same ticker at the same time.
C20_OverlapNoDuplicate ==
  /\ \A tk \in Tickers :
       active[tk].exists => WrittenFor(tk) <= 1 /\ NotifiedFor(tk) <= 1
  /\ \A p, q \in Procs :
       ( /\ p # q
         /\ pc[p] \in {"a_set", "a_upsert", "a_inc_get", "a_inc_set", "a_sms"}
         /\ pc[q] \in {"a_set", "a_upsert", "a_inc_get", "a_inc_set", "a_sms"} )
         => snap[p][idx[p]].id # snap[q][idx[q]].id

====
